---- MODULE Spec2Model ----
(***************************************************************************)
(* Model of the Synopsys DC synthesis plugin (hammer/synthesis/dc):        *)
(* the step pipeline that assembles dc.tcl, the engine invocation and the  *)
(* validation / export of the produced artifacts.                          *)
(*                                                                         *)
(* Text is modelled as text: script commands, paths and messages are TLA+  *)
(* strings built with \o exactly where the Python code formats or joins.   *)
(***************************************************************************)
EXTENDS Integers, Sequences, FiniteSets, TLC

VARIABLES
    pc,                 \* position of the run: run_steps, do_post_steps, fill_outputs, export, done, aborted
    todo,               \* the step list of this run (DC.steps minus the steps removed by hooks)
    idx,                \* index in todo of the next step to run
    output,             \* DC.output: the buffered dc.tcl commands (self._output)
    ran_write_outputs,  \* DC.ran_write_outputs (self._ran_write_outputs)
    ran_write_regs,     \* DC.ran_write_regs (self._ran_write_regs)
    clocks,             \* names returned by get_clock_ports()
    resets,             \* names returned by get_reset_ports()
    enable_colour,      \* HammerVLSILogging.enable_colour (process-wide)
    enable_tag,         \* HammerVLSILogging.enable_tag (process-wide)
    pre_flags,          \* the two flags as they were when run_design_compiler was entered
    files,              \* the artifacts present on disk once the engine has run
    dc_tcl,             \* contents of <script_dir>/dc.tcl, "" with script_written = FALSE when absent
    script_written,     \* dc.tcl has been written by this run
    invocations,        \* how many times run_design_compiler was entered
    engine_runs,        \* how many times run_executable was entered
    engine_args,        \* the argument vector of the last engine start
    engine_exit,        \* history: how the engine process ended: none / zero / nonzero
    trace,              \* history: the steps executed so far: [step, ret, before, after], with the
                        \* length of the buffer before and after the step
    outcome,            \* how the run stands: [kind, at, error], kind running / success / step_failed / exception
    attrs,              \* attributes assigned by fill_outputs (output_files, output_sdc, ...)
    checked,            \* history: the paths fill_outputs tested with os.path.isfile
    log,                \* history: the logger calls made, as <<level, message>>
    exported,           \* result of export_config_outputs, <<>> until it ran
    validations         \* how many times fill_outputs was entered

vars == <<pc, todo, idx, output, ran_write_outputs, ran_write_regs, clocks, resets,
          enable_colour, enable_tag, pre_flags, files, dc_tcl, script_written,
          invocations, engine_runs, engine_args, engine_exit, trace, outcome, attrs, checked, log, exported,
          validations>>

-----------------------------------------------------------------------------
(* Bounds of the model *)

MaxDbs == 1         \* at most this many timing libraries (self.timing_dbs)
MaxVerilog == 1     \* at most this many RTL / wrapper sources
MaxPorts == 1       \* at most this many clock ports, and this many reset ports
MaxLines == 2       \* at most this many buffered commands when the writer is checked on its own
MaxValidations == 2 \* at most this many runs of the validator against one state of the disk
MaxInvocations == 2 \* at most this many engine invocations when the script is written again

-----------------------------------------------------------------------------
(* Text helpers: what Python's str methods and os.path do *)

\* sep.join(parts)
RECURSIVE StrJoin(_, _)
StrJoin(sep, parts) ==
    IF Len(parts) = 0 THEN ""
    ELSE IF Len(parts) = 1 THEN parts[1]
    ELSE parts[1] \o sep \o StrJoin(sep, Tail(parts))

StartsWith(s, p) == Len(s) >= Len(p) /\ SubSeq(s, 1, Len(p)) = p

EndsWith(s, p) == Len(s) >= Len(p) /\ SubSeq(s, Len(s) - Len(p) + 1, Len(s)) = p

\* index of the last "/" of s at or before i, 0 when there is none (str.rfind + 1)
RECURSIVE LastSlash(_, _)
LastSlash(s, i) ==
    IF i = 0 THEN 0
    ELSE IF SubSeq(s, i, i) = "/" THEN i
    ELSE LastSlash(s, i - 1)

\* os.path.basename
Basename(p) == SubSeq(p, LastSlash(p, Len(p)) + 1, Len(p))

\* os.path.join of two components
PathJoin(a, b) ==
    IF StartsWith(b, "/") THEN b
    ELSE IF a = "" \/ EndsWith(a, "/") THEN a \o b
    ELSE a \o "/" \o b

-----------------------------------------------------------------------------
(* The run's configuration: directories, design name and settings *)

RunDir == "/run"
ResultDir == "/run/results"
ReportDir == "/run/reports"
ScriptDir == "/run"
TopModule == "core"
DcBinSetting == "/opt/synopsys/bin/dc_shell"      \* synthesis.dc.dc_bin
MaxThreadsSetting == ToString(4)                  \* vlsi.core.max_threads, formatted with %d
NoUngroupSetting == <<"sram_wrap">>               \* vlsi.inputs.no_ungroup
RetimedModulesSetting == <<"alu">>                \* vlsi.inputs.retimed_modules
RetimingArgsSetting == <<"-check_design">>        \* synthesis.dc.retiming_args
CompileArgsSetting == <<"-no_autoungroup">>       \* synthesis.dc.compile_args
SdcClockConstraints == "create_clock clk -name clk -period 10"   \* self.sdc_clock_constraints
ChildModulesTcl == "set child_modules_ir \"\""                   \* self.child_modules_tcl()
WriteRegsTcl == "write_regs_json"                                \* self.write_regs_tcl()

\* the i-th timing library, RTL source, clock port and reset port of the design
DbName(i) == "/tech/lib" \o ToString(i) \o ".db"
VerilogName(i) == "/src/rtl" \o ToString(i) \o ".v"
ClockName(i) == "clock" \o ToString(i)
ResetName(i) == "reset" \o ToString(i)

\* the lists of the first n of them
DbList(n) == [i \in 1..n |-> DbName(i)]
VerilogList(n) == [i \in 1..n |-> VerilogName(i)]
ClockList(n) == [i \in 1..n |-> ClockName(i)]
ResetList(n) == [i \in 1..n |-> ResetName(i)]

-----------------------------------------------------------------------------
(* DC.append: one command string is added at the end of the buffer *)

append(out, cmd) == Append(out, cmd)

\* what a step hands back: the buffer, its return (ok = True, fail = False,
\* raise = an exception left the step), the error raised and the logger calls made
\* ran: the step assigned True to its completion flag (write_outputs, write_regs)
StepResult(out, ret, error, msgs) ==
    [output |-> out, ret |-> ret, error |-> error, log |-> msgs, ran |-> FALSE]

\* the paths of a list that do not exist, in list order
MissingOf(paths, present) == SelectSeq(paths, LAMBDA p : p \notin present)

-----------------------------------------------------------------------------
(* The nine steps *)

init_environment(out, timing_dbs, present) ==
    LET o1 == append(out, "set_app_var sh_new_variable_message false")
        o2 == append(o1, "set disable_multicore_resource_checks true")
        o3 == append(o2, "set_host_options -max_cores " \o MaxThreadsSetting)
        o4 == append(o3, "set_app_var alib_library_analysis_path alib")
        o5 == append(o4, "set_app_var search_path \". " \o ResultDir \o " $search_path\"")
        missing == MissingOf(timing_dbs, present)
        o6 == append(o5, "set_app_var target_library \"" \o StrJoin(" ", timing_dbs) \o "\"")
        o7 == append(o6, "set_app_var synthetic_library dw_foundation.sldb")
        o8 == append(o7, "set_app_var link_library \"* $target_library $synthetic_library\"")
        o9 == append(o8, "set_app_var simplified_verification_mode false")
        o10 == append(o9, "set_svf results/" \o TopModule \o ".mapped.svf")
    IN  IF Len(missing) > 0
        THEN StepResult(o5, "fail", "", << <<"error", "Cannot find " \o missing[1]>> >>)
        ELSE StepResult(o10, "ok", "", <<>>)

elaborate_design(out, verilog, present) ==
    LET missing == MissingOf(verilog, present)
        o1 == append(out, "define_design_lib WORK -path ./WORK")
        o2 == append(o1, "analyze -format sverilog \"" \o StrJoin(" ", verilog) \o "\"")
        o3 == append(o2, "elaborate " \o TopModule)
        o4 == append(o3, "current_design " \o TopModule)
        o5 == append(o4, "link")
    IN  IF Len(missing) > 0
        THEN StepResult(out, "fail", "", << <<"error", "Cannot find " \o missing[1]>> >>)
        ELSE StepResult(o5, "ok", "", <<>>)

\* first for-loop of apply_constraints: one set_ungroup per module
RECURSIVE UngroupEach(_, _)
UngroupEach(out, modules) ==
    IF Len(modules) = 0 THEN out
    ELSE UngroupEach(append(out, "set_ungroup [get_designs " \o modules[1] \o "] false"),
                     Tail(modules))

\* second for-loop of apply_constraints: one set_optimize_registers per module
RECURSIVE RetimeEach(_, _, _)
RetimeEach(out, modules, clks) ==
    IF Len(modules) = 0 THEN out
    ELSE RetimeEach(append(out, StrJoin(" ", <<"set_optimize_registers", "true",
                                               "-design", modules[1],
                                               "-clock", "{" \o StrJoin(" ", clks) \o "}">>
                                             \o RetimingArgsSetting)),
                    Tail(modules), clks)

apply_constraints(out, clks) ==
    LET o1 == append(out, SdcClockConstraints)
        o2 == UngroupEach(o1, NoUngroupSetting)
        o3 == RetimeEach(o2, RetimedModulesSetting, clks)
        o4 == append(o3,
                 "\nset ports_clock_root [filter_collection [get_attribute [get_clocks] sources] object_class==port]"
              \o "\ngroup_path -name REGOUT -to [all_outputs]"
              \o "\ngroup_path -name REGIN -from [remove_from_collection [all_inputs] ${ports_clock_root}]"
              \o "\ngroup_path -name FEEDTHROUGH -from [remove_from_collection [all_inputs] ${ports_clock_root}] -to [all_outputs]"
              \o "\n")
        o5 == append(o4, "set_fix_multiple_port_nets -all -buffer_constants")
    IN  StepResult(o5, "ok", "", <<>>)

\* a step that falls back on a conventional port name when the design has no clock or reset
insert_dft_DefaultsPort(out, clks, rsts) ==
    LET clk == IF Len(clks) = 0 THEN "clk" ELSE clks[1]
        rst == IF Len(rsts) = 0 THEN "rst" ELSE rsts[1]
        o1 == append(out, "set compile_timing_high_effort true")
        o2 == append(o1, "set compile_delete_unloaded_sequential_cells true")
        o3 == append(o2, "set_scan_configuration -style multiplexed_flip_flop")
        o4 == append(o3, "compile -scan  -gate_clock -area_effor medium -map_effort medium")
        o5 == append(o4, "set_scan_configuration -chain_count 1  -create_test_clocks_by_system_clock_domain true")
        o6 == append(o5, "\nset_dft_signal -view existing_dft -type ScanClock -port " \o clk
                         \o "  -timing [list 45 95] -active_state 1 -connect_to " \o clk \o "\n")
        o7 == append(o6, "create_port test_si -direction in")
        o8 == append(o7, "create_port test_se -direction in")
        o9 == append(o8, "create_port test_so -direction out")
        o10 == append(o9, "\nset_dft_signal -view spec -type Reset -port " \o rst \o " -active_state 1\n")
        o11 == append(o10, "set_dft_signal -view spec -type ScanDataIn -port test_si ")
        o12 == append(o11, "set_dft_signal -view spec -type ScanDataOut -port test_so")
        o13 == append(o12, "set_dft_signal -view spec -type ScanEnable -port test_se -active_state 1")
        o14 == append(o13, "create_test_protocol")
        o15 == append(o14, "dft_drc -verbose")
        o16 == append(o15, "preview_dft")
        o17 == append(o16, "insert_dft")
        o18 == append(o17, "check_scan")
        o19 == append(o18, "dft_drc")
        o20 == append(o19, "check_design")
    IN  StepResult(o20, "ok", "", <<>>)

insert_dft(out, clks, rsts) ==
    LET o1 == append(out, "set compile_timing_high_effort true")
        o2 == append(o1, "set compile_delete_unloaded_sequential_cells true")
        o3 == append(o2, "set_scan_configuration -style multiplexed_flip_flop")
        o4 == append(o3, "compile -scan  -gate_clock -area_effor medium -map_effort medium")
        o5 == append(o4, "set_scan_configuration -chain_count 1  -create_test_clocks_by_system_clock_domain true")
        o6 == append(o5, "\nset_dft_signal -view existing_dft -type ScanClock -port " \o clks[1]
                         \o "  -timing [list 45 95] -active_state 1 -connect_to " \o clks[1] \o "\n")
        o7 == append(o6, "create_port test_si -direction in")
        o8 == append(o7, "create_port test_se -direction in")
        o9 == append(o8, "create_port test_so -direction out")
        o10 == append(o9, "\nset_dft_signal -view spec -type Reset -port " \o rsts[1] \o " -active_state 1\n")
        o11 == append(o10, "set_dft_signal -view spec -type ScanDataIn -port test_si ")
        o12 == append(o11, "set_dft_signal -view spec -type ScanDataOut -port test_so")
        o13 == append(o12, "set_dft_signal -view spec -type ScanEnable -port test_se -active_state 1")
        o14 == append(o13, "create_test_protocol")
        o15 == append(o14, "dft_drc -verbose")
        o16 == append(o15, "preview_dft")
        o17 == append(o16, "insert_dft")
        o18 == append(o17, "check_scan")
        o19 == append(o18, "dft_drc")
        o20 == append(o19, "check_design")
    IN  IF Len(clks) = 0 THEN StepResult(o5, "raise", "IndexError: list index out of range", <<>>)
        ELSE IF Len(rsts) = 0 THEN StepResult(o9, "raise", "IndexError: list index out of range", <<>>)
        ELSE StepResult(o20, "ok", "", <<>>)

optimize_design(out) ==
    LET o1 == append(out, "compile_ultra " \o StrJoin(" ", CompileArgsSetting))
        o2 == append(o1, "change_names -rules verilog -hierarchy")
        o3 == append(o2, "set_svf -off")
    IN  StepResult(o3, "ok", "", <<>>)

generate_reports(out) ==
    LET pre == ReportDir \o "/" \o TopModule
        o1 == append(out,
                 "\nreport_reference -hierarchy > \\\n    " \o pre \o ".mapped.report_reference.out"
              \o "\nreport_qor > \\\n    " \o pre \o ".mapped.qor.rpt"
              \o "\nreport_area -nosplit > \\\n    " \o pre \o ".mapped.area.rpt"
              \o "\nreport_timing -max_paths 500 -nworst 10 -input_pins -capacitance \\"
              \o "\n    -significant_digits 4 -transition_time -nets -attributes -nosplit > \\"
              \o "\n    " \o pre \o ".mapped.timing.rpt"
              \o "\n"
              \o "\nreport_power -nosplit > \\\n    " \o pre \o ".mapped.power.rpt"
              \o "\nreport_clock_gating -nosplit > \\\n    " \o pre \o ".mapped.clock_gating.rpt"
              \o "\n")
    IN  StepResult(o1, "ok", "", <<>>)

generate_dft_reports(out) ==
    LET pre == ResultDir \o "/" \o TopModule
        o1 == append(out, "\nwrite_test_protocol -output " \o pre \o "_test_protocol.spf\n")
        o2 == append(o1, "\nwrite_scan_def -output " \o pre \o "_report_dft.scandef\n")
    IN  StepResult(o2, "ok", "", <<>>)

\* a write_outputs that buffers its commands but leaves its completion flag alone
write_outputs_NoFlag(out) ==
    LET pre == ResultDir \o "/" \o TopModule
        o1 == append(out,
                 "\nwrite -format verilog -hierarchy -output \\\n    " \o pre \o ".mapped.v"
              \o "\nwrite -format ddc -hierarchy -output \\\n    " \o pre \o ".mapped.ddc"
              \o "\nwrite_sdc -nosplit \\\n    " \o pre \o ".mapped.sdc"
              \o "\n")
    IN  StepResult(o1, "ok", "", <<>>)

write_outputs(out) ==
    LET pre == ResultDir \o "/" \o TopModule
        o1 == append(out,
                 "\nwrite -format verilog -hierarchy -output \\\n    " \o pre \o ".mapped.v"
              \o "\nwrite -format ddc -hierarchy -output \\\n    " \o pre \o ".mapped.ddc"
              \o "\nwrite_sdc -nosplit \\\n    " \o pre \o ".mapped.sdc"
              \o "\n")
    IN  [StepResult(o1, "ok", "", <<>>) EXCEPT !.ran = TRUE]

write_regs(out, nonleaf) ==
    LET o1 == IF nonleaf THEN append(out, ChildModulesTcl) ELSE out
        o2 == append(o1, WriteRegsTcl)
    IN  [StepResult(o2, "ok", "", <<>>) EXCEPT !.ran = TRUE]

\* a step list that declares write_regs ahead of write_outputs
steps_RegsBeforeOutputs ==
    <<"init_environment", "elaborate_design", "apply_constraints", "insert_dft",
      "optimize_design", "generate_reports", "generate_dft_reports",
      "write_regs", "write_outputs">>

\* DC.steps: the declared order
steps == <<"init_environment", "elaborate_design", "apply_constraints", "insert_dft",
           "optimize_design", "generate_reports", "generate_dft_reports",
           "write_outputs", "write_regs">>

-----------------------------------------------------------------------------
(* The framework's step runner and run sequence *)

\* the steps a run may leave out (removed by a hook): the optional stages
OptionalSteps == {"insert_dft", "generate_dft_reports", "write_outputs", "write_regs"}

\* a runner that ignores what the step returned and carries on with the next step
AfterStep_KeepsGoing(ret, i, n) ==
    [pc |-> IF i + 1 > n THEN "do_post_steps" ELSE "run_steps", idx |-> i + 1,
     kind |-> "running"]

\* where the run goes after a step returned: on to the next step, on to
\* do_post_steps after the last one, or out of the run when the step failed
AfterStep(ret, i, n) ==
    IF ret = "ok"
    THEN [pc |-> IF i + 1 > n THEN "do_post_steps" ELSE "run_steps", idx |-> i + 1,
          kind |-> "running"]
    ELSE [pc |-> "aborted", idx |-> i,
          kind |-> IF ret = "fail" THEN "step_failed" ELSE "exception"]

\* the subprocess primitive: returns the output lines, or propagates a
\* non-zero exit of the process as a failure to its caller
run_executable(engineOK) ==
    IF engineOK THEN [ret |-> "ok", error |-> ""]
    ELSE [ret |-> "raise", error |-> "EngineExecutionError: non-zero exit"]

-----------------------------------------------------------------------------
(* Artifact paths *)

all_regs_path == PathJoin(RunDir, "find_regs_paths.json")
all_cells_path == PathJoin(RunDir, "find_regs_cells.json")
post_synth_sdc == PathJoin(ResultDir, TopModule \o ".mapped.sdc")
output_sdf_path == PathJoin(RunDir, TopModule \o ".mapped.sdf")
mapped_v_path == PathJoin(ResultDir, TopModule \o ".mapped.v")
mapped_sdc_path == PathJoin(ResultDir, TopModule \o ".mapped.sdc")

\* everything the engine may leave on disk that the validator looks at
Artifacts == {all_regs_path, all_cells_path, post_synth_sdc, output_sdf_path, mapped_v_path}

-----------------------------------------------------------------------------
(* Engine invocation *)

\* a writer that joins the buffer last command first
RECURSIVE ScriptText_Reversed(_)
ScriptText_Reversed(out) ==
    IF Len(out) = 0 THEN "\nexit"
    ELSE IF Len(out) = 1 THEN out[1] \o "\nexit"
    ELSE out[Len(out)] \o "\n" \o ScriptText_Reversed(SubSeq(out, 1, Len(out) - 1))

\* a writer that leaves out the second _f.write
ScriptText_NoExit(out) == StrJoin("\n", out)

\* the text the two _f.write calls put into dc.tcl
ScriptText(out) == StrJoin("\n", out) \o "\nexit"

\* an invoker that empties the buffer once it has written it out
run_design_compiler_ClearsBuffer(out, colour, tag, openOK, engineOK) ==
    LET tcl == PathJoin(ScriptDir, "dc.tcl")
        args == <<Basename(DcBinSetting), "-64bit", "-f", tcl>>
        exe == run_executable(engineOK)
    IN  IF ~openOK
        THEN [ret |-> "raise", error |-> "OSError: " \o tcl,
              enable_colour |-> FALSE, enable_tag |-> FALSE,
              written |-> FALSE, text |-> "", started |-> FALSE, args |-> <<>>,
              output |-> out]
        ELSE IF exe.ret = "raise"
        THEN [ret |-> "raise", error |-> exe.error,
              enable_colour |-> FALSE, enable_tag |-> FALSE,
              written |-> TRUE, text |-> StrJoin("\n", out) \o "\nexit", started |-> TRUE,
              args |-> args, output |-> <<>>]
        ELSE [ret |-> "ok", error |-> "",
              enable_colour |-> TRUE, enable_tag |-> TRUE,
              written |-> TRUE, text |-> StrJoin("\n", out) \o "\nexit", started |-> TRUE,
              args |-> args, output |-> <<>>]

\* an invoker that catches the failure of the subprocess primitive and returns True
run_design_compiler_IgnoresExit(out, colour, tag, openOK, engineOK) ==
    LET tcl == PathJoin(ScriptDir, "dc.tcl")
    IN  IF ~openOK
        THEN [ret |-> "raise", error |-> "OSError: " \o tcl,
              enable_colour |-> FALSE, enable_tag |-> FALSE,
              written |-> FALSE, text |-> "", started |-> FALSE, args |-> <<>>,
              output |-> out]
        ELSE [ret |-> "ok", error |-> "",
              enable_colour |-> TRUE, enable_tag |-> TRUE,
              written |-> TRUE, text |-> StrJoin("\n", out) \o "\nexit", started |-> TRUE,
              args |-> <<Basename(DcBinSetting), "-64bit", "-f", tcl>>, output |-> out]

\* run_design_compiler up to the point where run_executable blocks on the
\* engine process: the flags are off, dc.tcl is written and the engine started;
\* openOK: open(dc_tcl, 'w') succeeds
run_design_compiler_start(out, openOK) ==
    LET tcl == PathJoin(ScriptDir, "dc.tcl")
    IN  IF ~openOK
        THEN [ret |-> "raise", error |-> "OSError: " \o tcl,
              enable_colour |-> FALSE, enable_tag |-> FALSE,
              written |-> FALSE, text |-> "", started |-> FALSE, args |-> <<>>]
        ELSE [ret |-> "wait", error |-> "",
              enable_colour |-> FALSE, enable_tag |-> FALSE,
              written |-> TRUE, text |-> ScriptText(out), started |-> TRUE,
              args |-> <<Basename(DcBinSetting), "-64bit", "-f", tcl>>]

\* run_design_compiler; openOK: open(dc_tcl, 'w') succeeds,
\* engineOK: the engine process exits with status 0
run_design_compiler(out, colour, tag, openOK, engineOK) ==
    LET dc_bin == Basename(DcBinSetting)
        tcl == PathJoin(ScriptDir, "dc.tcl")
        args == <<dc_bin, "-64bit", "-f", tcl>>
        exe == run_executable(engineOK)
    IN  IF ~openOK
        THEN [ret |-> "raise", error |-> "OSError: " \o tcl,
              enable_colour |-> FALSE, enable_tag |-> FALSE,
              written |-> FALSE, text |-> "", started |-> FALSE, args |-> <<>>,
              output |-> out]
        ELSE IF exe.ret = "raise"
        THEN [ret |-> "raise", error |-> exe.error,
              enable_colour |-> FALSE, enable_tag |-> FALSE,
              written |-> TRUE, text |-> ScriptText(out), started |-> TRUE, args |-> args,
              output |-> out]
        ELSE [ret |-> "ok", error |-> "",
              enable_colour |-> TRUE, enable_tag |-> TRUE,
              written |-> TRUE, text |-> ScriptText(out), started |-> TRUE, args |-> args,
              output |-> out]

-----------------------------------------------------------------------------
(* Output validation and export *)

\* the output attributes of a fresh tool: none has been assigned, and reading
\* one raises AttributeError
NoAttrs == [n \in {} |-> ""]

\* self.<n> = v
SetAttr(at, n, v) == [k \in (DOMAIN at) \cup {n} |-> IF k = n THEN v ELSE at[k]]

\* a validator that checks the register metadata whether or not write_regs ran
CheckRegs_Ungated(present, rwr, procOK) ==
    IF all_cells_path \notin present
    THEN [raised |-> TRUE, path |-> all_cells_path,
          error |-> "Output find_regs_cells.json " \o all_cells_path \o " not found",
          checked |-> <<all_cells_path>>, log |-> <<>>]
    ELSE IF all_regs_path \notin present
    THEN [raised |-> TRUE, path |-> all_regs_path,
          error |-> "Output find_regs_paths.json " \o all_regs_path \o " not found",
          checked |-> <<all_cells_path, all_regs_path>>, log |-> <<>>]
    ELSE [raised |-> FALSE, path |-> "", error |-> "",
          checked |-> <<all_cells_path, all_regs_path>>,
          log |-> IF ~procOK
                  THEN << <<"error", "Failed to process all register paths">> >>
                  ELSE <<>>]

\* a validator whose second register check reports the path of the first
CheckRegs_WrongPath(present, rwr, procOK) ==
    IF rwr
    THEN IF all_cells_path \notin present
         THEN [raised |-> TRUE, path |-> all_cells_path,
               error |-> "Output find_regs_cells.json " \o all_cells_path \o " not found",
               checked |-> <<all_cells_path>>, log |-> <<>>]
         ELSE IF all_regs_path \notin present
         THEN [raised |-> TRUE, path |-> all_cells_path,
               error |-> "Output find_regs_paths.json " \o all_cells_path \o " not found",
               checked |-> <<all_cells_path, all_regs_path>>, log |-> <<>>]
         ELSE [raised |-> FALSE, path |-> "", error |-> "",
               checked |-> <<all_cells_path, all_regs_path>>,
               log |-> IF ~procOK
                       THEN << <<"error", "Failed to process all register paths">> >>
                       ELSE <<>>]
    ELSE [raised |-> FALSE, path |-> "", error |-> "", checked |-> <<>>,
          log |-> << <<"info", "Did not run write_regs">> >>]

\* lines 24-34 of fill_outputs: the register metadata, gated by ran_write_regs
\* procOK: process_reg_paths returns True
CheckRegs(present, rwr, procOK) ==
    IF rwr
    THEN IF all_cells_path \notin present
         THEN [raised |-> TRUE, path |-> all_cells_path,
               error |-> "Output find_regs_cells.json " \o all_cells_path \o " not found",
               checked |-> <<all_cells_path>>, log |-> <<>>]
         ELSE IF all_regs_path \notin present
         THEN [raised |-> TRUE, path |-> all_regs_path,
               error |-> "Output find_regs_paths.json " \o all_regs_path \o " not found",
               checked |-> <<all_cells_path, all_regs_path>>, log |-> <<>>]
         ELSE [raised |-> FALSE, path |-> "", error |-> "",
               checked |-> <<all_cells_path, all_regs_path>>,
               log |-> IF ~procOK
                       THEN << <<"error", "Failed to process all register paths">> >>
                       ELSE <<>>]
    ELSE [raised |-> FALSE, path |-> "", error |-> "", checked |-> <<>>,
          log |-> << <<"info", "Did not run write_regs">> >>]

\* lines 44-54 of fill_outputs: the written outputs, gated by ran_write_outputs
\* (reached only when mapped_v exists, so the check of line 45 cannot raise)
CheckOutputs(present, rwo, output_sdc) ==
    IF rwo
    THEN [checked |-> <<mapped_v_path, output_sdc, output_sdf_path>>,
          log |-> (IF output_sdc \notin present
                   THEN << <<"warning", "Output SDC " \o mapped_sdc_path \o " not found">> >>
                   ELSE <<>>)
               \o (IF output_sdf_path \notin present
                   THEN << <<"warning", "Output SDF " \o output_sdf_path \o " not found">> >>
                   ELSE <<>>)]
    ELSE [checked |-> <<>>, log |-> << <<"info", "Did not run write_outputs">> >>]

\* a validator that adds the netlist to the output files it finds already assigned
fill_outputs_Accumulates(at, present, rwr, rwo, procOK) ==
    LET a1 == SetAttr(SetAttr(at, "output_seq_cells", all_cells_path),
                      "output_all_regs", all_regs_path)
        regs == CheckRegs(present, rwr, procOK)
        had == IF "output_files" \in DOMAIN at THEN at.output_files ELSE <<>>
        a2 == SetAttr(SetAttr(SetAttr(a1, "output_files", had \o <<mapped_v_path>>),
                              "output_sdc", post_synth_sdc),
                      "sdf_file", output_sdf_path)
        outs == CheckOutputs(present, rwo, a2.output_sdc)
    IN  IF regs.raised
        THEN [ret |-> "raise", error |-> regs.error, path |-> regs.path, attrs |-> a1,
              checked |-> regs.checked, log |-> regs.log]
        ELSE IF mapped_v_path \notin present
        THEN [ret |-> "raise", path |-> mapped_v_path,
              error |-> "Output mapped verilog " \o mapped_v_path \o " not found",
              attrs |-> a1, checked |-> regs.checked \o <<mapped_v_path>>, log |-> regs.log]
        ELSE [ret |-> "ok", error |-> "", path |-> "", attrs |-> a2,
              checked |-> regs.checked \o <<mapped_v_path>> \o outs.checked,
              log |-> regs.log \o outs.log]

\* a validator for which a missing SDF is as fatal as a missing netlist
fill_outputs_SdfFatal(at, present, rwr, rwo, procOK) ==
    LET a1 == SetAttr(SetAttr(at, "output_seq_cells", all_cells_path),
                      "output_all_regs", all_regs_path)
        regs == CheckRegs(present, rwr, procOK)
        a2 == SetAttr(SetAttr(SetAttr(a1, "output_files", <<mapped_v_path>>),
                              "output_sdc", post_synth_sdc),
                      "sdf_file", output_sdf_path)
        outs == CheckOutputs(present, rwo, a2.output_sdc)
    IN  IF regs.raised
        THEN [ret |-> "raise", error |-> regs.error, path |-> regs.path, attrs |-> a1,
              checked |-> regs.checked, log |-> regs.log]
        ELSE IF mapped_v_path \notin present
        THEN [ret |-> "raise", path |-> mapped_v_path,
              error |-> "Output mapped verilog " \o mapped_v_path \o " not found",
              attrs |-> a1, checked |-> regs.checked \o <<mapped_v_path>>, log |-> regs.log]
        ELSE IF rwo /\ output_sdf_path \notin present
        THEN [ret |-> "raise", path |-> output_sdf_path,
              error |-> "Output SDF " \o output_sdf_path \o " not found",
              attrs |-> a2, checked |-> regs.checked \o <<mapped_v_path>> \o outs.checked,
              log |-> regs.log]
        ELSE [ret |-> "ok", error |-> "", path |-> "", attrs |-> a2,
              checked |-> regs.checked \o <<mapped_v_path>> \o outs.checked,
              log |-> regs.log \o outs.log]

fill_outputs(at, present, rwr, rwo, procOK) ==
    LET a1 == SetAttr(SetAttr(at, "output_seq_cells", all_cells_path),
                      "output_all_regs", all_regs_path)
        regs == CheckRegs(present, rwr, procOK)
        a2 == SetAttr(SetAttr(SetAttr(a1, "output_files", <<mapped_v_path>>),
                              "output_sdc", post_synth_sdc),
                      "sdf_file", output_sdf_path)
        outs == CheckOutputs(present, rwo, a2.output_sdc)
    IN  IF regs.raised
        THEN [ret |-> "raise", error |-> regs.error, path |-> regs.path, attrs |-> a1,
              checked |-> regs.checked, log |-> regs.log]
        ELSE IF mapped_v_path \notin present
        THEN [ret |-> "raise", path |-> mapped_v_path,
              error |-> "Output mapped verilog " \o mapped_v_path \o " not found",
              attrs |-> a1, checked |-> regs.checked \o <<mapped_v_path>>, log |-> regs.log]
        ELSE [ret |-> "ok", error |-> "", path |-> "", attrs |-> a2,
              checked |-> regs.checked \o <<mapped_v_path>> \o outs.checked,
              log |-> regs.log \o outs.log]

\* reading self.<n> of an attribute that was never assigned
NoAttribute(n) == "AttributeError: 'DC' object has no attribute '" \o n \o "'"

\* the part of the exported map the base class contributes
SuperExportConfigOutputs(at) ==
    IF "output_files" \notin DOMAIN at
    THEN [ret |-> "raise", error |-> NoAttribute("output_files"), outputs |-> <<>>]
    ELSE [ret |-> "ok", error |-> "",
          outputs |-> [k \in {"synthesis.outputs.output_files"} |-> at.output_files]]

\* the attributes export_config_outputs reads after the base class's part, in order
ExportReads == <<"output_sdc", "output_seq_cells", "output_all_regs">>

export_config_outputs(at) ==
    LET base == SuperExportConfigOutputs(at)
        unset == SelectSeq(ExportReads, LAMBDA n : n \notin DOMAIN at)
    IN  IF base.ret = "raise" THEN base
        ELSE IF Len(unset) > 0
        THEN [ret |-> "raise", error |-> NoAttribute(unset[1]), outputs |-> <<>>]
        ELSE [ret |-> "ok", error |-> "",
              outputs |->
                  [k \in {"synthesis.outputs.sdc", "synthesis.outputs.seq_cells",
                          "synthesis.outputs.all_regs", "synthesis.outputs.sdf_file"} |->
                      CASE k = "synthesis.outputs.sdc" -> at.output_sdc
                        [] k = "synthesis.outputs.seq_cells" -> at.output_seq_cells
                        [] k = "synthesis.outputs.all_regs" -> at.output_all_regs
                        [] k = "synthesis.outputs.sdf_file" -> output_sdf_path]
                  @@ base.outputs]

-----------------------------------------------------------------------------
(* Initial states: a fresh tool instance, a design, a step list, and the     *)
(* process-wide logging flags as some earlier code left them                 *)

StepLists == {SelectSeq(steps, LAMBDA s : s \notin removed) : removed \in SUBSET OptionalSteps}

Init ==
    /\ pc = "run_steps"
    /\ todo \in StepLists
    /\ idx = 1
    /\ output = <<>>
    /\ ran_write_outputs = FALSE
    /\ ran_write_regs = FALSE
    /\ clocks \in {ClockList(n) : n \in 0..MaxPorts}
    /\ resets \in {ResetList(n) : n \in 0..MaxPorts}
    /\ enable_colour \in BOOLEAN
    /\ enable_tag \in BOOLEAN
    /\ pre_flags = [enable_colour |-> enable_colour, enable_tag |-> enable_tag]
    /\ files = {}
    /\ dc_tcl = ""
    /\ script_written = FALSE
    /\ invocations = 0
    /\ engine_runs = 0
    /\ engine_args = <<>>
    /\ engine_exit = "none"
    /\ trace = <<>>
    /\ outcome = [kind |-> "running", at |-> "", error |-> ""]
    /\ attrs = NoAttrs
    /\ checked = <<>>
    /\ log = <<>>
    /\ exported = <<>>
    /\ validations = 0

-----------------------------------------------------------------------------
(* Actions: the run executes one step of its list at a time *)

\* the runner calls step `name`, which hands back res
RunStep(name, res) ==
    /\ pc = "run_steps"
    /\ idx <= Len(todo)
    /\ todo[idx] = name
    /\ \E r \in {res} : \E nxt \in {AfterStep(r.ret, idx, Len(todo))} :
        /\ output' = r.output
        /\ log' = log \o r.log
        /\ trace' = Append(trace, [step |-> name, ret |-> r.ret, before |-> Len(output),
                                  after |-> Len(r.output)])
        /\ ran_write_outputs' = IF name = "write_outputs" /\ r.ran THEN TRUE ELSE ran_write_outputs
        /\ ran_write_regs' = IF name = "write_regs" /\ r.ran THEN TRUE ELSE ran_write_regs
        /\ pc' = nxt.pc
        /\ idx' = nxt.idx
        /\ outcome' = [kind |-> nxt.kind, at |-> IF nxt.kind = "running" THEN "" ELSE name,
                       error |-> r.error]
    /\ UNCHANGED <<todo, clocks, resets, enable_colour, enable_tag, pre_flags, files,
                   dc_tcl, script_written, invocations, engine_runs, engine_args,
                   engine_exit, attrs, checked, exported, validations>>

InitEnvironment ==
    \E n \in 0..MaxDbs : \E present \in SUBSET {DbName(i) : i \in 1..n} :
        RunStep("init_environment", init_environment(output, DbList(n), present))

ElaborateDesign ==
    \E n \in 0..MaxVerilog : \E present \in SUBSET {VerilogName(i) : i \in 1..n} :
        RunStep("elaborate_design", elaborate_design(output, VerilogList(n), present))

ApplyConstraints == RunStep("apply_constraints", apply_constraints(output, clocks))

InsertDft == RunStep("insert_dft", insert_dft(output, clocks, resets))

OptimizeDesign == RunStep("optimize_design", optimize_design(output))

GenerateReports == RunStep("generate_reports", generate_reports(output))

GenerateDftReports == RunStep("generate_dft_reports", generate_dft_reports(output))

WriteOutputs == RunStep("write_outputs", write_outputs(output))

WriteRegs ==
    \E nonleaf \in BOOLEAN : RunStep("write_regs", write_regs(output, nonleaf))

\* run_design_compiler is entered and runs until run_executable waits for the
\* engine process: both flags are off and dc.tcl is on disk while the engine runs
EnterEngine ==
    \E openOK \in BOOLEAN :
    \E s \in {run_design_compiler_start(output, openOK)} :
        /\ pre_flags' = [enable_colour |-> enable_colour, enable_tag |-> enable_tag]
        /\ invocations' = invocations + 1
        /\ enable_colour' = s.enable_colour
        /\ enable_tag' = s.enable_tag
        /\ script_written' = (script_written \/ s.written)
        /\ dc_tcl' = IF s.written THEN s.text ELSE dc_tcl
        /\ IF s.started
           THEN /\ engine_runs' = engine_runs + 1
                /\ engine_args' = s.args
                /\ engine_exit' = "none"
                /\ pc' = "run_executable"
                /\ UNCHANGED outcome
           ELSE /\ UNCHANGED <<engine_runs, engine_args, engine_exit>>
                /\ pc' = "aborted"
                /\ outcome' = [kind |-> "exception", at |-> "run_design_compiler",
                               error |-> s.error]
        /\ UNCHANGED <<output, files>>

\* the engine process has ended and run_executable returns or raises;
\* run_design_compiler then sets the flags and returns, or the exception leaves it;
\* produced: the artifacts on disk when the engine has finished
EngineReturns ==
    /\ pc = "run_executable"
    /\ \E engineOK \in BOOLEAN :
       \E r \in {run_design_compiler(output, pre_flags.enable_colour, pre_flags.enable_tag,
                                     TRUE, engineOK)} :
           /\ output' = r.output
           /\ enable_colour' = r.enable_colour
           /\ enable_tag' = r.enable_tag
           /\ engine_exit' = IF engineOK THEN "zero" ELSE "nonzero"
           /\ IF r.ret = "ok"
              THEN /\ \E produced \in SUBSET Artifacts : files' = produced
                   /\ pc' = "fill_outputs"
                   /\ UNCHANGED outcome
              ELSE /\ UNCHANGED files
                   /\ pc' = "aborted"
                   /\ outcome' = [kind |-> "exception", at |-> "run_design_compiler",
                                  error |-> r.error]
    /\ UNCHANGED <<todo, idx, ran_write_outputs, ran_write_regs, clocks, resets, pre_flags,
                   dc_tcl, script_written, invocations, engine_runs, engine_args,
                   trace, attrs, checked, log, exported, validations>>

\* do_post_steps: the base class's post-steps are asserted, then the engine is invoked
DoPostSteps ==
    /\ pc = "do_post_steps"
    /\ \E superOK \in BOOLEAN :
        IF ~superOK
        THEN /\ pc' = "aborted"
             /\ outcome' = [kind |-> "exception", at |-> "do_post_steps",
                            error |-> "AssertionError"]
             /\ UNCHANGED <<output, enable_colour, enable_tag, pre_flags, files, dc_tcl,
                            script_written, invocations, engine_runs, engine_args,
                            engine_exit>>
        ELSE EnterEngine
    /\ UNCHANGED <<todo, idx, ran_write_outputs, ran_write_regs, clocks, resets,
                   trace, attrs, checked, log, exported, validations>>

\* one call of fill_outputs against the files on disk and the completion flags
Validate ==
    /\ validations' = validations + 1
    /\ \E procOK \in BOOLEAN :
       \E r \in {fill_outputs(attrs, files, ran_write_regs, ran_write_outputs, procOK)} :
            /\ attrs' = r.attrs
            /\ checked' = checked \o r.checked
            /\ log' = log \o r.log
            /\ IF r.ret = "ok"
               THEN /\ pc' = "export"
                    /\ UNCHANGED outcome
               ELSE /\ pc' = "aborted"
                    /\ outcome' = [kind |-> "exception", at |-> "fill_outputs",
                                   error |-> r.error]
    /\ UNCHANGED <<todo, idx, output, ran_write_outputs, ran_write_regs, clocks, resets,
                   enable_colour, enable_tag, pre_flags, files, dc_tcl, script_written,
                   invocations, engine_runs, engine_args, engine_exit, trace, exported>>

\* the validator runs after a successful invocation
FillOutputs ==
    /\ pc = "fill_outputs"
    /\ Validate

\* the driver collects the outputs of a successful run
ExportConfigOutputs ==
    /\ pc = "export"
    /\ \E r \in {export_config_outputs(attrs)} :
          IF r.ret = "ok"
          THEN /\ exported' = r.outputs
               /\ pc' = "done"
               /\ outcome' = [kind |-> "success", at |-> "", error |-> ""]
          ELSE /\ UNCHANGED exported
               /\ pc' = "aborted"
               /\ outcome' = [kind |-> "exception", at |-> "export_config_outputs",
                              error |-> r.error]
    /\ UNCHANGED <<todo, idx, output, ran_write_outputs, ran_write_regs, clocks, resets,
                   enable_colour, enable_tag, pre_flags, files, dc_tcl, script_written,
                   invocations, engine_runs, engine_args, engine_exit, trace, attrs, checked,
                   log, validations>>

Next ==
    \/ InitEnvironment
    \/ ElaborateDesign
    \/ ApplyConstraints
    \/ InsertDft
    \/ OptimizeDesign
    \/ GenerateReports
    \/ GenerateDftReports
    \/ WriteOutputs
    \/ WriteRegs
    \/ DoPostSteps
    \/ EngineReturns
    \/ FillOutputs
    \/ ExportConfigOutputs

Spec == Init /\ [][Next]_vars

-----------------------------------------------------------------------------
(* The engine invocation on its own: run_design_compiler is entered with any  *)
(* buffer of at most MaxLines commands, the empty buffer included             *)

Range(sq) == {sq[i] : i \in 1..Len(sq)}

\* commands the pipeline appends: those of optimize_design, write_outputs and write_regs
CommandPool ==
    Range(optimize_design(<<>>).output) \cup Range(write_outputs(<<>>).output)
        \cup Range(write_regs(<<>>, FALSE).output)

Buffers == UNION {[1..n -> CommandPool] : n \in 0..MaxLines}

InitRender ==
    /\ pc = "do_post_steps"
    /\ todo = <<>>
    /\ idx = 1
    /\ output \in Buffers
    /\ ran_write_outputs = FALSE
    /\ ran_write_regs = FALSE
    /\ clocks = <<>>
    /\ resets = <<>>
    /\ enable_colour \in BOOLEAN
    /\ enable_tag \in BOOLEAN
    /\ pre_flags = [enable_colour |-> enable_colour, enable_tag |-> enable_tag]
    /\ files = {}
    /\ dc_tcl = ""
    /\ script_written = FALSE
    /\ invocations = 0
    /\ engine_runs = 0
    /\ engine_args = <<>>
    /\ engine_exit = "none"
    /\ trace = <<>>
    /\ outcome = [kind |-> "running", at |-> "", error |-> ""]
    /\ attrs = NoAttrs
    /\ checked = <<>>
    /\ log = <<>>
    /\ exported = <<>>
    /\ validations = 0

NextRender ==
    \/ DoPostSteps
    \/ EngineReturns

SpecRender == InitRender /\ [][NextRender]_vars

-----------------------------------------------------------------------------
(* Validation and export on their own: fill_outputs and export_config_outputs *)
(* run, and run again, against any set of artifacts on disk and any values of *)
(* the two completion flags                                                   *)

InitValidate ==
    /\ pc = "fill_outputs"
    /\ todo = <<>>
    /\ idx = 1
    /\ output = <<>>
    /\ ran_write_outputs \in BOOLEAN
    /\ ran_write_regs \in BOOLEAN
    /\ clocks = <<>>
    /\ resets = <<>>
    /\ enable_colour = TRUE
    /\ enable_tag = TRUE
    /\ pre_flags = [enable_colour |-> enable_colour, enable_tag |-> enable_tag]
    /\ files \in SUBSET Artifacts
    /\ dc_tcl = ""
    /\ script_written = FALSE
    /\ invocations = 0
    /\ engine_runs = 0
    /\ engine_args = <<>>
    /\ engine_exit = "none"
    /\ trace = <<>>
    /\ outcome = [kind |-> "running", at |-> "", error |-> ""]
    /\ attrs = NoAttrs
    /\ checked = <<>>
    /\ log = <<>>
    /\ exported = <<>>
    /\ validations = 0

\* the validator is called again after it returned or raised; disk and flags are as before
FillOutputsAgain ==
    /\ pc = "done" \/ (pc = "aborted" /\ outcome.at = "fill_outputs")
    /\ validations < MaxValidations
    /\ Validate

NextValidate ==
    \/ FillOutputs
    \/ ExportConfigOutputs
    \/ FillOutputsAgain

SpecValidate == InitValidate /\ [][NextValidate]_vars

-----------------------------------------------------------------------------
(* The run with a repeated invocation: after run_design_compiler returned it  *)
(* may be called again, which writes dc.tcl again from the buffer             *)

InvokeAgain ==
    /\ pc = "fill_outputs"
    /\ invocations < MaxInvocations
    /\ EnterEngine
    /\ UNCHANGED <<todo, idx, ran_write_outputs, ran_write_regs, clocks, resets,
                   trace, attrs, checked, log, exported, validations>>

NextReflush ==
    \/ Next
    \/ InvokeAgain

SpecReflush == Init /\ [][NextReflush]_vars

TypeOK ==
    /\ pc \in {"run_steps", "do_post_steps", "run_executable", "fill_outputs", "export",
              "done", "aborted"}
    /\ pc = "run_executable" =>
          ~enable_colour /\ ~enable_tag /\ script_written /\ engine_exit = "none"
    /\ idx \in 1..(Len(todo) + 1)
    /\ ran_write_outputs \in BOOLEAN /\ ran_write_regs \in BOOLEAN
    /\ enable_colour \in BOOLEAN /\ enable_tag \in BOOLEAN
    /\ files \subseteq Artifacts
    /\ invocations \in 0..MaxInvocations /\ engine_runs \in 0..invocations
    /\ validations \in 0..MaxValidations
    /\ DOMAIN attrs \subseteq {"output_seq_cells", "output_all_regs", "output_files",
                               "output_sdc", "sdf_file"}

-----------------------------------------------------------------------------
(* Properties *)

InSeq(x, sq) == \E i \in 1..Len(sq) : sq[i] = x

\* run_design_compiler was entered and has been left, by return or by exception
InvocationEnded == invocations > 0 /\ pc # "run_executable"

\* fill_outputs was entered and has been left, by return or by exception
Validated == pc \in {"export", "done"} \/ (pc = "aborted" /\ outcome.at = "fill_outputs")

\* fill_outputs returned True
ValidatedOK == pc \in {"export", "done"}

\* C1: fail-fast. Once the step at position k of the step list has not
\* returned success, it is the last step that ran: the run is over, the
\* buffer has no command beyond those that step left, the engine was never invoked, and the
\* completion flag of every later step is still unset.
C1_FailFast ==
    \A k \in 1..Len(trace) :
        /\ trace[k].step = todo[k]
        /\ trace[k].ret # "ok" =>
              /\ k = Len(trace)
              /\ pc = "aborted"
              /\ Len(output) = trace[k].after
              /\ invocations = 0 /\ ~script_written
              /\ \A j \in (k + 1)..Len(todo) :
                    /\ todo[j] = "write_outputs" => ~ran_write_outputs
                    /\ todo[j] = "write_regs" => ~ran_write_regs

\* elaborate_design returned failure with seven steps still to run
C1_Witness ==
    /\ Len(trace) = 2
    /\ trace[2].step = "elaborate_design"
    /\ trace[2].ret = "fail"
    /\ Len(todo) = Len(steps)
    /\ pc = "aborted"
    /\ Len(output) > 0

\* C2: on every exit path of run_design_compiler the logging flags are
\* restored: a flag that was on when the invocation began is on when it ends.
C2_FlagsRestoredOnEveryExit ==
    InvocationEnded =>
        /\ pre_flags.enable_colour => enable_colour
        /\ pre_flags.enable_tag => enable_tag

\* C3: after run_design_compiler the logging flags have the values they had
\* immediately before it, whatever those values were.
C3_FlagsEqualPreInvocation ==
    InvocationEnded =>
        /\ enable_colour = pre_flags.enable_colour
        /\ enable_tag = pre_flags.enable_tag

\* the message of a fatal error names path p
ErrorNames(err, p) == EndsWith(err, " " \o p \o " not found")

\* the error fill_outputs raised, "" when it returned
ValidatorError == IF pc = "aborted" /\ outcome.at = "fill_outputs" THEN outcome.error ELSE ""

\* C4: when write_regs did not run, fill_outputs tests neither
\* find_regs_cells.json nor find_regs_paths.json, does not fail naming either
\* of them, and logs that write_regs did not run.
C4_RegsGatedByRanWriteRegs ==
    (Validated /\ ~ran_write_regs) =>
        /\ ~InSeq(all_cells_path, checked)
        /\ ~InSeq(all_regs_path, checked)
        /\ ~ErrorNames(ValidatorError, all_cells_path)
        /\ ~ErrorNames(ValidatorError, all_regs_path)
        /\ InSeq(<<"info", "Did not run write_regs">>, log)

\* write_regs was left out, the engine produced no register file, validation passed
C4_Witness ==
    /\ ~ran_write_regs
    /\ all_cells_path \notin files /\ all_regs_path \notin files
    /\ pc = "done"
    /\ InSeq(<<"info", "Did not run write_regs">>, log)

\* C5: when write_outputs did not run, fill_outputs does not fail because the
\* mapped netlist, the mapped SDC or the SDF is absent.
C5_OutputsGatedByRanWriteOutputs ==
    (Validated /\ ~ran_write_outputs) =>
        /\ ~ErrorNames(ValidatorError, mapped_v_path)
        /\ ~ErrorNames(ValidatorError, post_synth_sdc)
        /\ ~ErrorNames(ValidatorError, output_sdf_path)

\* the mandatory artifacts whose producing stage ran and that are not on disk
MissingMandatory ==
    ((IF ran_write_regs THEN {all_cells_path, all_regs_path} ELSE {})
     \cup (IF ran_write_outputs THEN {mapped_v_path} ELSE {})) \ files

\* C6: when a mandatory artifact whose stage ran is absent, fill_outputs ends
\* in a fatal error whose message names an absent mandatory artifact and no
\* other path; it does not return success.
C6_MissingMandatoryIsFatal ==
    (Validated /\ MissingMandatory # {}) =>
        /\ pc = "aborted"
        /\ outcome.kind = "exception"
        /\ \E p \in MissingMandatory : ErrorNames(ValidatorError, p)
        /\ \A q \in Artifacts : ErrorNames(ValidatorError, q) => q \in MissingMandatory
        /\ Cardinality(MissingMandatory) = 1 =>
              \A p \in MissingMandatory : ErrorNames(ValidatorError, p)

\* write_regs ran, the cell list is there, the path list is the one thing missing
C6_Witness ==
    /\ Validated
    /\ ran_write_regs /\ ran_write_outputs
    /\ MissingMandatory = {all_regs_path}
    /\ pc = "aborted"
    /\ ErrorNames(outcome.error, all_regs_path)

\* C7: when write_outputs ran and no mandatory artifact is missing, an absent
\* mapped SDC or SDF only produces a warning: fill_outputs returns True and
\* the exported map is produced.
C7_MissingOptionalIsWarning ==
    (Validated /\ ran_write_outputs /\ MissingMandatory = {}
        /\ (post_synth_sdc \notin files \/ output_sdf_path \notin files)) =>
        /\ ValidatedOK
        /\ post_synth_sdc \notin files =>
              InSeq(<<"warning", "Output SDC " \o mapped_sdc_path \o " not found">>, log)
        /\ output_sdf_path \notin files =>
              InSeq(<<"warning", "Output SDF " \o output_sdf_path \o " not found">>, log)
        /\ pc = "done" =>
              /\ outcome.kind = "success"
              /\ exported # <<>>
              /\ exported["synthesis.outputs.sdf_file"] = output_sdf_path
              /\ exported["synthesis.outputs.sdc"] = post_synth_sdc

\* the netlist is there, SDC and SDF are both absent, and the run succeeded
C7_Witness ==
    /\ pc = "done"
    /\ ran_write_outputs
    /\ mapped_v_path \in files
    /\ post_synth_sdc \notin files /\ output_sdf_path \notin files
    /\ MissingMandatory = {}
    /\ outcome.kind = "success"

\* process_reg_paths was called and returned False
RegPathProcessingFailed == InSeq(<<"error", "Failed to process all register paths">>, log)

\* C8: when write_regs ran, both register files exist and process_reg_paths
\* reports failure, fill_outputs ends in a fatal error and does not return
\* success.
C8_RegPathFailureIsFatal ==
    (Validated /\ ran_write_regs /\ all_cells_path \in files /\ all_regs_path \in files
        /\ RegPathProcessingFailed) =>
        /\ pc = "aborted"
        /\ outcome.kind = "exception"

\* C9: a non-zero exit of the engine process is fatal and is not retried:
\* run_design_compiler does not return, the run is aborted with the engine's
\* error before validation or export, and the engine was started once.
C9_EngineFailureIsFatal ==
    /\ engine_runs <= 1
    /\ engine_exit = "nonzero" =>
          /\ pc = "aborted"
          /\ outcome.kind = "exception"
          /\ outcome.at = "run_design_compiler"
          /\ engine_runs = 1
          /\ checked = <<>> /\ exported = <<>>

\* the script was written, the engine was started and exited non-zero
C9_Witness ==
    /\ engine_exit = "nonzero"
    /\ script_written
    /\ engine_runs = 1
    /\ pc = "aborted"

\* dc.tcl without its last five characters
ScriptBody == IF Len(dc_tcl) >= 5 THEN SubSeq(dc_tcl, 1, Len(dc_tcl) - 5) ELSE ""

\* C10: the text written to dc.tcl ends with exactly one exit directive: its
\* last line is "exit" and the line before it is not another "exit"; also
\* for the empty buffer.
C10_ScriptEndsWithOneExit ==
    script_written =>
        /\ EndsWith(dc_tcl, "\nexit")
        /\ ~EndsWith(ScriptBody, "\nexit")
        /\ ScriptBody # "exit"

\* the empty buffer was written: the file is an empty line and the exit directive
C10_Witness ==
    /\ script_written
    /\ output = <<>>
    /\ dc_tcl = "\nexit"

\* reading text from position pos on: the commands cmds, one after the other,
\* each followed by a newline, and then the exit directive up to the end
RECURSIVE ReadsAs(_, _, _)
ReadsAs(text, pos, cmds) ==
    IF Len(cmds) = 0
    THEN SubSeq(text, pos, Len(text)) = "exit"
    ELSE LET c == cmds[1]
             n == Len(c)
         IN  /\ pos + n <= Len(text)
             /\ SubSeq(text, pos, pos + n - 1) = c
             /\ SubSeq(text, pos + n, pos + n) = "\n"
             /\ ReadsAs(text, pos + n + 1, Tail(cmds))

\* C11: dc.tcl is exactly the buffered commands in the order they were
\* appended, each one followed by a newline (for the empty buffer: a lone
\* newline), and then the exit directive; nothing is dropped, merged or
\* reordered. For two commands a, b the file is a \n b \n exit.
C11_ScriptIsBufferThenExit ==
    script_written =>
        /\ IF Len(output) = 0 THEN dc_tcl = "\nexit" ELSE ReadsAs(dc_tcl, 1, output)
        /\ output = <<"set_svf -off", "write_regs_json">> =>
              dc_tcl = "set_svf -off\nwrite_regs_json\nexit"
        /\ output = <<"set_svf -off", "set_svf -off">> =>
              dc_tcl = "set_svf -off\nset_svf -off\nexit"

\* two different commands were buffered and written in that order
C11_Witness ==
    /\ script_written
    /\ output = <<"set_svf -off", "write_regs_json">>
    /\ dc_tcl = "set_svf -off\nwrite_regs_json\nexit"

\* C12: validating and exporting a second time against the same disk and
\* the same completion flags gives what the first time gave: a validator that
\* raised raises the same error again, a validator that returned True returns
\* True again with the same attributes, and the exporter hands back the same
\* map.
C12_ValidationIdempotent ==
    [][/\ (pc = "aborted" /\ validations' = validations + 1) =>
              (pc' = "aborted" /\ outcome' = outcome)
       /\ (pc = "done" /\ validations' = validations + 1) =>
              (pc' = "export" /\ attrs' = attrs)
       /\ (pc = "export" /\ validations > 1) =>
              (pc' = "done" /\ exported' = exported /\ outcome'.kind = "success")
       /\ (files' = files /\ ran_write_regs' = ran_write_regs
              /\ ran_write_outputs' = ran_write_outputs)]_vars

\* the validator and the exporter have both run twice and the run stands as a success
C12_Witness ==
    /\ validations = 2
    /\ pc = "done"
    /\ exported # <<>>
    /\ Len(checked) > 2

\* position of the first occurrence of sub in s at or after i, 0 when there is none
RECURSIVE Find(_, _, _)
Find(s, sub, i) ==
    IF i + Len(sub) - 1 > Len(s) THEN 0
    ELSE IF SubSeq(s, i, i + Len(sub) - 1) = sub THEN i
    ELSE Find(s, sub, i + 1)

\* position of the last character of the word of s that starts at i
RECURSIVE WordEnd(_, _)
WordEnd(s, i) ==
    IF i >= Len(s) THEN Len(s)
    ELSE IF SubSeq(s, i + 1, i + 1) \in {" ", "\n"} THEN i
    ELSE WordEnd(s, i + 1)

\* the word that follows option flag in command cmd, "" when the option is absent
ArgOf(cmd, flag) ==
    LET k == Find(cmd, flag \o " ", 1)
        b == k + Len(flag) + 1
    IN  IF k = 0 THEN "" ELSE SubSeq(cmd, b, WordEnd(cmd, b))

\* cmd is a set_dft_signal command
IsDftSignal(cmd) == StartsWith(cmd, "set_dft_signal ") \/ StartsWith(cmd, "\nset_dft_signal ")

\* insert_dft does not succeed on a design without a clock port or without a reset port
InsertDftFailsWithoutPorts ==
    \A k \in 1..Len(trace) :
        (trace[k].step = "insert_dft" /\ (Len(clocks) = 0 \/ Len(resets) = 0)) =>
            /\ trace[k].ret # "ok"
            /\ pc = "aborted"
            /\ invocations = 0

\* C13 as stated: insert_dft fails without a clock or a reset port, and every
\* set_dft_signal command in the buffer names a clock port or a reset port of
\* the design.
C13_EveryDftSignalNamesDesignPort ==
    /\ InsertDftFailsWithoutPorts
    /\ \A i \in 1..Len(output) :
          IsDftSignal(output[i]) =>
              ArgOf(output[i], "-port") \in Range(clocks) \cup Range(resets)

\* C13 (amended): insert_dft fails without a clock or a reset port; a
\* set_dft_signal of type ScanClock names a clock port of the design and
\* connects to it, one of type Reset names a reset port of the design, and
\* the remaining ones (scan data in / out, scan enable) name the test ports
\* test_si, test_so, test_se that the step has created before.
C13_DftSignalPorts ==
    /\ InsertDftFailsWithoutPorts
    /\ \A i \in 1..Len(output) :
          IsDftSignal(output[i]) =>
              LET type == ArgOf(output[i], "-type")
                  port == ArgOf(output[i], "-port")
              IN  /\ type \in {"ScanClock", "Reset", "ScanDataIn", "ScanDataOut", "ScanEnable"}
                  /\ type = "ScanClock" =>
                        /\ port \in Range(clocks)
                        /\ ArgOf(output[i], "-connect_to") = port
                  /\ type = "Reset" => port \in Range(resets)
                  /\ type \in {"ScanDataIn", "ScanDataOut", "ScanEnable"} =>
                        /\ port \in {"test_si", "test_so", "test_se"}
                        /\ \E j \in 1..(i - 1) :
                              StartsWith(output[j], "create_port " \o port \o " ")

\* a design with a clock but no reset: insert_dft raised after its ScanClock signal
C13_Witness ==
    /\ Len(clocks) > 0
    /\ Len(resets) = 0
    /\ Len(trace) > 0
    /\ trace[Len(trace)].step = "insert_dft"
    /\ trace[Len(trace)].ret = "raise"
    /\ pc = "aborted"
    /\ \E i \in 1..Len(output) :
          IsDftSignal(output[i]) /\ ArgOf(output[i], "-port") = clocks[1]

\* the order of the stages that C14 states
FixedOrder ==
    <<"init_environment", "elaborate_design", "apply_constraints", "insert_dft",
      "optimize_design", "generate_reports", "generate_dft_reports",
      "write_outputs", "write_regs">>

Rank(s) == CHOOSE i \in 1..Len(FixedOrder) : FixedOrder[i] = s

\* the stages that ran did so in the fixed order, each at most once
RanInFixedOrder ==
    \A k \in 1..Len(trace) :
        /\ trace[k].step \in Range(FixedOrder)
        /\ \A j \in 1..(k - 1) : Rank(trace[j].step) < Rank(trace[k].step)

\* the engine invocation has begun: dc.tcl written or the engine started
Invoked == invocations > 0 \/ script_written \/ engine_runs > 0

\* C14 as stated: stages run in the fixed order, the engine is invoked at
\* most once, and only after all nine stages have returned success.
C14_InvokedAfterAllNine ==
    /\ RanInFixedOrder
    /\ invocations <= 1 /\ engine_runs <= 1
    /\ Invoked =>
          /\ Len(trace) = Len(FixedOrder)
          /\ \A k \in 1..Len(trace) : trace[k].step = FixedOrder[k] /\ trace[k].ret = "ok"

\* C14 (amended): stages run in the fixed order, the engine is invoked at
\* most once, and only after every stage of the run's step list has returned
\* success; that list holds the five mandatory stages and those optional
\* stages that were not removed for the run, so all nine when none was
\* removed.
C14_InvokedAfterAllStagesOfRun ==
    /\ RanInFixedOrder
    /\ invocations <= 1 /\ engine_runs <= 1
    /\ Invoked =>
          /\ Len(trace) = Len(todo)
          /\ \A k \in 1..Len(trace) : trace[k].step = todo[k] /\ trace[k].ret = "ok"
          /\ \A st \in Range(FixedOrder) \ OptionalSteps :
                \E k \in 1..Len(trace) : trace[k].step = st
          /\ Len(todo) = Len(FixedOrder) =>
                \A k \in 1..Len(trace) : trace[k].step = FixedOrder[k]

\* a run of all nine stages whose engine invocation returned
C14_Witness ==
    /\ Len(trace) = Len(FixedOrder)
    /\ trace[Len(trace)].step = "write_regs"
    /\ invocations = 1
    /\ engine_runs = 1
    /\ script_written
    /\ pc = "fill_outputs"

\* stage st has executed and returned success
StageSucceeded(st) == \E k \in 1..Len(trace) : trace[k].step = st /\ trace[k].ret = "ok"

\* C15: both completion flags are false when the run starts; each is true
\* exactly when its own stage has executed and returned success; neither goes
\* back to false; and in a run of all nine stages ran_write_regs implies
\* ran_write_outputs.
C15_FlagsTrackStages ==
    /\ [](/\ trace = <<>> => (~ran_write_outputs /\ ~ran_write_regs)
          /\ ran_write_outputs <=> StageSucceeded("write_outputs")
          /\ ran_write_regs <=> StageSucceeded("write_regs")
          /\ (Len(todo) = Len(FixedOrder) /\ ran_write_regs) => ran_write_outputs)
    /\ [][/\ ran_write_outputs => ran_write_outputs'
          /\ ran_write_regs => ran_write_regs']_vars

\* a run of all nine stages went through validation with both flags set
C15_Witness ==
    /\ Len(todo) = Len(FixedOrder)
    /\ ran_write_outputs /\ ran_write_regs
    /\ StageSucceeded("write_outputs") /\ StageSucceeded("write_regs")
    /\ pc = "done"

\* sequence p is a prefix of sequence q
IsPrefix(p, q) == Len(p) <= Len(q) /\ SubSeq(q, 1, Len(p)) = p

\* C16: the buffer is append-only: every stage and every invocation leaves the
\* old contents as a prefix of the new; an invocation leaves the buffer as it
\* was, and one that writes dc.tcl after an earlier one wrote it writes the
\* same text.
C16_BufferAppendOnly ==
    [][/\ IsPrefix(output, output')
       /\ (invocations' = invocations + 1 \/ pc = "run_executable") => output' = output
       /\ (invocations' = invocations + 1 /\ engine_runs > 0
              /\ engine_runs' = engine_runs + 1) => dc_tcl' = dc_tcl]_vars

\* dc.tcl has been written twice and the engine started twice
C16_Witness ==
    /\ invocations = 2
    /\ engine_runs = 2
    /\ script_written
    /\ Len(output) > 0
    /\ dc_tcl = ScriptText(output)

\* C17: a stage that fails its input validation leaves the buffer exactly as
\* it was before the stage started: init_environment with a missing timing
\* library and elaborate_design with a missing source both return failure
\* without having appended any command.
C17_FailedValidationLeavesBuffer ==
    [][(/\ pc = "run_steps"
        /\ pc' = "aborted"
        /\ outcome'.kind = "step_failed"
        /\ outcome'.at \in {"init_environment", "elaborate_design"})
       => output' = output]_vars

====
